---- MODULE Spec2Model ----
(***************************************************************************)
(* The DetectionEngine component of the classroom monitor front-end, in    *)
(* its two versions:                                                       *)
(*   "simple"  src/frontend/src/components/DetectionEngine.jsx             *)
(*   "relay"   src/unnamed/part_000 (the relay-aware DetectionEngine)      *)
(* One behaviour follows ONE component instance: its refs (isProcessing,   *)
(* lastReportTime), its props (classId, teacherId), the interval timer of  *)
(* its poll effect, the asynchronous detectFrame calls that are suspended  *)
(* at an await, and (relay version) the relay socket's message handler     *)
(* writing the <img> element's src.                                        *)
(*                                                                         *)
(* Next to it, each with a specification of its own:                       *)
(*   the overlay <canvas> that drawOverlay paints (SpecOverlay);           *)
(*   the alert socket of TeacherDashboardPage, src/frontend/src/pages and  *)
(*   src/unnamed/part_002 (SpecAlert, and SpecSockets with the relay       *)
(*   socket);                                                              *)
(*   the API helpers fetchData and login of src/frontend/src/api           *)
(*   (SpecApi);                                                            *)
(*   the session: localStorage and AuthProvider of src/unnamed/part_001,   *)
(*   with the pages that sign in, sign out and call the admin API          *)
(*   (SpecSession);                                                        *)
(*   the engine of the admin grid as the selected class changes            *)
(*   (SpecClasses);                                                        *)
(*   the routes of App and their ProtectedRoute guard, src/unnamed/part_001*)
(*   (SpecRoutes).                                                         *)
(*                                                                         *)
(* JavaScript runs handlers to completion, so one action is one handler    *)
(* run, or the part of an async function between two awaits.               *)
(***************************************************************************)
EXTENDS Integers, Sequences, FiniteSets, TLC

\* ---------------------------------------------------------------- constants
\* 12-second cooldown between accepted reports, in ms.
Cooldown == 12000
\* setInterval period of the simple version, in ms.
SimplePeriod == 700
\* setInterval period of the relay version, in ms.
RelayPeriod == 1000
\* Confidence thresholds, in hundredths (conf 0.35 is 35).
SimpleThreshold == 35
RelayThreshold == 18

\* ------------------------------------------------------------------- bounds
\* Date.now() when the component mounts. The real value is of the order of
\* 10^12; all the code does with it is subtract lastReportTime (initially 0),
\* so any value above Cooldown behaves alike.
Epoch == 20000
\* The wall clock is observed at a few instants: at the mount (Epoch), one
\* timer period later (the first instant the interval can fire), and from
\* there ShortGap and LongGap later (a gap inside and a gap outside the
\* cooldown window), exactly one cooldown later, and two LongGaps later.
ShortGap == 5000
LongGap == 13000
\* detectFrame calls that can be suspended at an await at the same time.
MaxCycles == 2
\* Longest prediction list of a detect response.
MaxPreds == 1
\* Longest prediction list drawOverlay is given.
MaxBoxes == 2
\* Alert sockets one page instance creates.
MaxSockets == 2
\* Alerts one page instance receives, and the distinct alerts among them.
MaxAlerts == 2
MaxAlertIds == 2

VARIABLES
    variant,        \* "simple" or "relay": which version this instance runs
    now,            \* Date.now()
    mounted,        \* the component is mounted
    classId,        \* prop classId (0: absent, a falsy value)
    teacherId,      \* prop teacherId (0: absent)
    timer,          \* the poll effect's interval: "off", "armed" or "due"
    isProcessing,   \* isProcessing.current
    lastReportTime, \* lastReportTime.current
    cyc,            \* the suspended detectFrame calls, by slot
    reportTimes,    \* history: Date.now() at each report-violation POST
    reportAuth,     \* history: the bearer token of each report-violation POST
    imgSrc,         \* imageRef.current.src, a string as a sequence of characters
    ws,             \* the relay socket of streamWsRef: "none", "open", "closed"
    oldWs,          \* the states of the relay sockets the ref held before
    last,           \* history: the handler that ran last, its inputs, its output
    \* TeacherDashboardPage (variant "simple": src/frontend/src/pages, variant
    \* "relay": src/unnamed/part_002) and its alert socket
    pageMounted,    \* the page is mounted
    depToken,       \* token of useAuth() as last rendered (0: none)
    sessionInfo,    \* sessionInfo is set (the teacher has signed in to a class)
    alertSocks,     \* every alert socket the page created: its readyState
    socketRef,      \* the socket the alert effect's cleanup looks at (0: none)
    connectTimer,   \* the 100 ms connect timeout: "none" or "set"
    hasCleanup,     \* the last run of the alert effect returned a cleanup
    notifications,  \* notifications, newest first
    latestAlert,    \* latestAlert (0: null)
    hideTimers,     \* pending setTimeout(() => setLatestAlert(null), 5000), the
                    \* oldest first: for each, the alert whose arrival set it
    \* the overlay <canvas> of the DetectionEngine
    canvas,         \* its width and height, and what was drawn since its reset
    call,           \* the arguments of the drawOverlay call looked at
    \* the API helpers of src/frontend/src/api (admin.js, auth.js)
    req,            \* the call looked at: the helper, its token, what fetch gives
    res,            \* how the call ended: what it returned or threw
    \* the session: localStorage and the state of AuthProvider
    storage,        \* localStorage: the keys 'token', 'access_token', 'user_role'
    auth,           \* AuthProvider's token, isAuthenticated and userRole
    location        \* the path the router is at

engineVars == <<variant, now, mounted, classId, teacherId, timer, isProcessing,
                lastReportTime, cyc, reportTimes, reportAuth, imgSrc, ws, oldWs>>

alertVars == <<pageMounted, depToken, sessionInfo, alertSocks, socketRef,
               connectTimer, hasCleanup, notifications, latestAlert, hideTimers>>

\* What the handlers of the DetectionEngine leave alone.
overlayVars == <<canvas, call>>

apiVars == <<req, res>>

sessionVars == <<storage, auth, location>>

otherVars == <<alertVars, overlayVars, apiVars, sessionVars>>

vars == <<engineVars, last, alertVars, overlayVars, apiVars, sessionVars>>

Slots == 1..MaxCycles

\* ------------------------------------------------------------- input domains
\* What a tick reads from the <img> element: whether imageRef.current is set,
\* its natural (native) size and its client (displayed) size. An <img> has no
\* videoWidth/videoHeight (undefined, falsy).
NoElement == [present |-> FALSE, natW |-> 0, natH |-> 0, cliW |-> 0, cliH |-> 0]

Media ==
    {NoElement} \cup
    [present : {TRUE}, natW : {0, 640}, natH : {0, 480},
     cliW : {0, 1280}, cliH : {0, 960}]

\* A prediction of the detect response: {class, conf}, conf in hundredths.
Predictions ==
    [class : {"cell phone"}, conf : {18, 35, 36}] \cup
    [class : {"person"}, conf : {36}]

PredictionLists == UNION {[1..n -> Predictions] : n \in 0..MaxPreds}

\* The parsed body of a detect response, of the shape the detect endpoint
\* gives it: predictions, each with a string class and a numeric conf
\* (possibly missing altogether, as in an error body {detail: ...}), and
\* evidence_url (present or not).
NoData == [hasPreds |-> FALSE, preds |-> <<>>, evidence |-> FALSE]

DetectData ==
    [hasPreds : {TRUE}, preds : PredictionLists, evidence : BOOLEAN] \cup
    [hasPreds : {FALSE}, preds : {<<>>}, evidence : BOOLEAN]

IdleCycle == [pc |-> "idle", ok |-> TRUE]

\* The class of a prediction with a box, a string as a sequence of
\* characters: 'cell phone', 'person', and 'Cell Phone' (not === 'cell phone').
CellPhone == <<"c", "e", "l", "l", " ", "p", "h", "o", "n", "e">>

Person == <<"p", "e", "r", "s", "o", "n">>

CellPhoneCaps == <<"C", "e", "l", "l", " ", "P", "h", "o", "n", "e">>

\* A prediction as drawOverlay reads it: {class, x, y, w, h}, in the pixels of
\* the frame the detector saw.
BoxPredictions ==
    [class : {CellPhone, Person}, x : {10}, y : {10}, w : {50}, h : {50}] \cup
    [class : {CellPhoneCaps}, x : {10}, y : {20}, w : {50}, h : {30}]

BoxLists == UNION {[1..n -> BoxPredictions] : n \in 0..MaxBoxes}

\* The second argument of drawOverlay (relay version): the size of the frame
\* detectFrame captured, or nothing (0: undefined) in the call of onmessage.
NoDims == [srcW |-> 0, srcH |-> 0]

Dims == {NoDims, [srcW |-> 640, srcH |-> 480]}

\* What drawOverlay finds in imageRef.current: no element; a loaded image
\* shown at twice its size, or stretched in width only; an image not loaded
\* (no natural size); an image with no layout size; an image with neither.
ShownMedia ==
    {NoElement,
     [present |-> TRUE, natW |-> 640, natH |-> 480, cliW |-> 1280, cliH |-> 960],
     [present |-> TRUE, natW |-> 640, natH |-> 480, cliW |-> 1280, cliH |-> 480],
     [present |-> TRUE, natW |-> 0, natH |-> 0, cliW |-> 1280, cliH |-> 960],
     [present |-> TRUE, natW |-> 640, natH |-> 480, cliW |-> 0, cliH |-> 0],
     [present |-> TRUE, natW |-> 0, natH |-> 0, cliW |-> 0, cliH |-> 0]}

\* A message on the relay socket: whether JSON.parse succeeds, its type, its
\* image, and whether imageRef.current is set when it is handled.
DataA == <<"d", "a", "t", "a", ":", "A">>

DataB == <<"d", "a", "t", "a", ":", "B">>

\* A relayed image that is itself an (upper-case) https URL.
HttpsR == <<"H", "T", "T", "P", "S", ":", "/", "/", "r">>

\* src={`http://${selectedClass.esp32_ip}:81/stream`}
HttpCam == <<"h", "t", "t", "p", ":", "/", "/", "c">>

FrameImages == {DataA, DataB, HttpsR}

NoMsg == [parseOk |-> FALSE, type |-> "none", image |-> <<>>, el |-> FALSE]

RelayMsgs ==
    [parseOk : {TRUE}, type : {"frame", "other"}, image : FrameImages, el : BOOLEAN]
    \cup [parseOk : {FALSE}, type : {"none"}, image : {<<>>}, el : BOOLEAN]

\* The record of the handler that ran last: the handler, what it read (the
\* media at a tick, the parsed detect body, the relay message), the highest
\* console level it logged at and whether it called alert().
Ran(op, log) ==
    [op |-> op, media |-> NoElement, data |-> NoData, msg |-> NoMsg,
     log |-> log, alerted |-> FALSE, sock |-> 0, alert |-> 0, path |-> "none"]

\* ------------------------------------------------------------------ session
\* localStorage holds strings. A token is an opaque string: a positive number
\* here, and 0 is null, what getItem gives for a key that is not set. A role
\* is "Admin" or "Teacher", and NoRole is null.
NoRole == "null"

\* localStorage after localStorage.clear().
NoStorage == [token |-> 0, access_token |-> 0, user_role |-> NoRole]

\* Mutant: the token AuthProvider holds in its state, not the stored one.
ContextToken(st) == auth.token

\* const token = localStorage.getItem('token') || localStorage.getItem('access_token');
StoredToken(st) == IF st.token # 0 THEN st.token ELSE st.access_token

\* ------------------------------------------------------------ pure functions
Period == IF variant = "simple" THEN SimplePeriod ELSE RelayPeriod

\* Mutant: the relay version using the simple version's threshold.
ThresholdOfSimple == SimpleThreshold

Threshold == IF variant = "simple" THEN SimpleThreshold ELSE RelayThreshold

\* (data.predictions || []).find(p => p.class === 'cell phone' && p.conf > thr):
\* the index of the first match, 0 when there is none.
FindPhone(preds, thr) ==
    LET hits == {i \in 1..Len(preds) :
                    preds[i].class = "cell phone" /\ preds[i].conf > thr}
    IN IF hits = {} THEN 0 ELSE CHOOSE i \in hits : \A j \in hits : i <= j

\* Mutant: the cooldown test with >= for >.
CooldownReached(t) == t - lastReportTime >= Cooldown

\* (now - lastReportTime.current) > 12000
CooldownElapsed(t) == t - lastReportTime > Cooldown

\* Mutant: no in-flight test at the head of detectFrame.
NeverBusy == FALSE

\* if (isProcessing.current) return;
SkipBusy == isProcessing

\* Mutant: only classId is tested.
ClassIdAbsent == classId = 0

\* !classId || !teacherId
IdsAbsent == classId = 0 \/ teacherId = 0

\* The source size detectFrame works with; 0 makes the tick return early.
\* simple: only naturalWidth is tested (naturalHeight is not).
\* relay:  videoWidth || naturalWidth || clientWidth, and the same for height.
SrcW(m) == IF m.natW # 0 THEN m.natW ELSE m.cliW

SrcH(m) == IF m.natH # 0 THEN m.natH ELSE m.cliH

SkipNoSize(m) ==
    IF variant = "simple"
    THEN ~m.present \/ m.natW = 0
    ELSE ~m.present \/ SrcW(m) = 0 \/ SrcH(m) = 0

\* The lowest free slot for a new detectFrame call.
FreeSlots == {s \in Slots : cyc[s].pc = "idle"}

NewSlot == CHOOSE s \in FreeSlots : \A r \in FreeSlots : s <= r

InFlight == {s \in Slots : cyc[s].pc # "idle"}

\* ------------------------------------------------------------------ actions
\* Mutant: detectFrame returns without its finally block.
EndCycleKeepsFlag(s) ==
    /\ cyc' = [cyc EXCEPT ![s] = IdleCycle]
    /\ UNCHANGED <<isProcessing, timer>>

\* Mutant: the end of a cycle clears the interval.
EndCycleStopsPolling(s) ==
    /\ isProcessing' = FALSE
    /\ cyc' = [cyc EXCEPT ![s] = IdleCycle]
    /\ timer' = "off"

\* finally { isProcessing.current = false; } and the return of detectFrame.
EndCycle(s) ==
    /\ isProcessing' = FALSE
    /\ cyc' = [cyc EXCEPT ![s] = IdleCycle]
    /\ UNCHANGED timer

\* The headers of the POST to /api/admin/detect:
\* { 'Content-Type': 'application/json' }. Authorization 0 is no such header.
DetectHeaders == [ContentType |-> "application/json", Authorization |-> 0]

\* One firing of setInterval(detectFrame, Period): the synchronous part of
\* detectFrame, up to its first await. m is what the tick reads from the
\* element; drawOk is whether drawImage and toDataURL return normally.
detectFrame(m, drawOk) ==
    /\ timer = "due"
    /\ timer' = "armed"
    /\ IF SkipBusy \/ SkipNoSize(m)
       THEN /\ last' = [Ran("tick", "none") EXCEPT !.media = m]
            /\ UNCHANGED <<isProcessing, cyc>>
       ELSE IF variant = "simple" /\ IdsAbsent
       THEN /\ last' = [Ran("tick", "warn") EXCEPT !.media = m]
            /\ UNCHANGED <<isProcessing, cyc>>
       ELSE IF ~drawOk
       THEN \* the capture throws: catch logs it, finally clears the flag
            /\ last' = [Ran("tick", "error") EXCEPT !.media = m]
            /\ isProcessing' = FALSE
            /\ UNCHANGED cyc
       ELSE /\ FreeSlots # {}
            /\ isProcessing' = TRUE
            /\ cyc' = [cyc EXCEPT ![NewSlot] = [pc |-> "fetch", ok |-> TRUE]]
            /\ last' = [Ran("tick", "none") EXCEPT !.media = m]
    /\ UNCHANGED <<variant, now, mounted, classId, teacherId, lastReportTime,
                   reportTimes, imgSrc, ws, oldWs>>
    /\ UNCHANGED <<otherVars, reportAuth>>

\* await fetch('.../api/admin/detect') settles. out is "reject" (network
\* error), "ok" or "notok" (a response whose ok is false).
\* relay: a response that is not ok is logged and its body read with text().
DetectFetched(s, out) ==
    /\ cyc[s].pc = "fetch"
    /\ IF out = "reject"
       THEN /\ EndCycle(s)
            /\ last' = Ran("fetched", "error")
       ELSE /\ cyc' = [cyc EXCEPT ![s] = [pc |-> "json", ok |-> (out = "ok")]]
            /\ last' = Ran("fetched",
                           IF variant = "relay" /\ out = "notok"
                           THEN "error" ELSE "none")
            /\ UNCHANGED <<isProcessing, timer>>
    /\ UNCHANGED <<variant, now, mounted, classId, teacherId, lastReportTime,
                   reportTimes, imgSrc, ws, oldWs>>
    /\ UNCHANGED <<otherVars, reportAuth>>

\* response.json() rejects when the body was already read: the relay version
\* reads it with response.text() when the response is not ok.
BodyUsed(s) == variant = "relay" /\ ~cyc[s].ok

\* drawOverlay(data.predictions) of the simple version throws on a body with
\* no predictions (predictions.forEach of undefined; were the canvas missing,
\* data.predictions.find would throw next). The relay version passes
\* data.predictions || [].
OverlayThrows(d) == variant = "simple" /\ ~d.hasPreds

\* Mutant: the evidence branch taken whatever the cooldown.
EvidenceAlways(d, t) == variant = "relay" /\ d.evidence

\* if (data.evidence_url && shouldThrottle): relay version only.
EvidenceBranch(d, t) == variant = "relay" /\ d.evidence /\ CooldownElapsed(t)

\* Mutant: a prediction of any class is reported.
ReportAnyClass(d, t) ==
    /\ ~EvidenceBranch(d, t)
    /\ Len(d.preds) > 0
    /\ CooldownElapsed(t)

\* simple: if (phone) { if (now - lastReportTime.current > 12000) ...
\* relay:  else if (phone && shouldThrottle)
ReportBranch(d, t) ==
    /\ ~EvidenceBranch(d, t)
    /\ FindPhone(d.preds, Threshold) # 0
    /\ CooldownElapsed(t)

\* Mutant: reportViolation is called without await, so detectFrame reaches
\* its finally while the POST is out.
ReportNotAwaited(s) ==
    /\ cyc' = [cyc EXCEPT ![s] = [pc |-> "report", ok |-> cyc[s].ok]]
    /\ isProcessing' = FALSE
    /\ UNCHANGED timer

\* await reportViolation(phone, base64Image): detectFrame is suspended, still
\* inside its try, until the POST has settled.
AwaitReport(s) ==
    /\ cyc' = [cyc EXCEPT ![s] = [pc |-> "report", ok |-> cyc[s].ok]]
    /\ UNCHANGED <<isProcessing, timer>>

\* await response.json() settles and detectFrame runs on to its next await
\* (the fetch inside reportViolation) or to its end. parseOk is whether the
\* body is JSON; d is the parsed body.
DetectParsed(s, parseOk, d) ==
    /\ cyc[s].pc = "json"
    /\ IF BodyUsed(s) \/ ~parseOk \/ OverlayThrows(d)
       THEN /\ EndCycle(s)
            /\ last' = [Ran("parsed", "error") EXCEPT
                           !.data = IF BodyUsed(s) \/ ~parseOk THEN NoData ELSE d]
            /\ UNCHANGED <<lastReportTime, reportTimes, reportAuth>>
       ELSE IF EvidenceBranch(d, now)
       THEN /\ lastReportTime' = now
            /\ EndCycle(s)
            /\ last' = [Ran("parsed", "none") EXCEPT !.data = d, !.alerted = TRUE]
            /\ UNCHANGED <<reportTimes, reportAuth>>
       ELSE IF ReportBranch(d, now)
       THEN /\ lastReportTime' = now
            /\ reportTimes' = Append(reportTimes, now)
            /\ reportAuth' = Append(reportAuth, StoredToken(storage))
            /\ AwaitReport(s)
            /\ last' = [Ran("parsed", "log") EXCEPT !.data = d]
       ELSE /\ EndCycle(s)
            /\ last' = [Ran("parsed", "none") EXCEPT !.data = d]
            /\ UNCHANGED <<lastReportTime, reportTimes, reportAuth>>
    /\ UNCHANGED <<variant, now, mounted, classId, teacherId, imgSrc, ws, oldWs>>
    /\ UNCHANGED otherVars

\* Mutant: a failed report gives the cooldown back (the timestamp is reset).
reportViolationRollsBack(s, out) ==
    /\ cyc[s].pc = "report"
    /\ EndCycle(s)
    /\ last' = IF out = "ok"
               THEN [Ran("reported", "log") EXCEPT !.alerted = TRUE]
               ELSE Ran("reported", "error")
    /\ lastReportTime' = IF out = "ok" THEN lastReportTime ELSE 0
    /\ UNCHANGED <<variant, now, mounted, classId, teacherId, reportTimes,
                   imgSrc, ws, oldWs>>
    /\ UNCHANGED <<otherVars, reportAuth>>

\* The fetch of reportViolation settles: "reject", "ok" (alert), "notok" (the
\* error body is read and its detail logged) or "notokBadJson" (reading the
\* error body throws). reportViolation catches everything; detectFrame then
\* reaches its finally.
reportViolation(s, out) ==
    /\ cyc[s].pc = "report"
    /\ EndCycle(s)
    /\ last' = IF out = "ok"
               THEN [Ran("reported", "log") EXCEPT !.alerted = TRUE]
               ELSE Ran("reported", "error")
    /\ UNCHANGED <<variant, now, mounted, classId, teacherId, lastReportTime,
                   reportTimes, imgSrc, ws, oldWs>>
    /\ UNCHANGED <<otherVars, reportAuth>>

\* The instants at which the model observes the wall clock. Any two are at
\* least one timer period apart.
ClockValues ==
    {Epoch} \cup
    {Epoch + Period + d : d \in {0, ShortGap, Cooldown, LongGap, 2 * LongGap}}

\* The wall clock advances to a later instant t. At least one timer period
\* has passed, so an armed interval becomes due.
Advance(t) ==
    /\ t \in ClockValues
    /\ t > now
    /\ now' = t
    /\ timer' = IF timer = "off" THEN "off" ELSE "due"
    /\ last' = Ran("advance", "none")
    /\ UNCHANGED <<variant, mounted, classId, teacherId, isProcessing,
                   lastReportTime, cyc, reportTimes, imgSrc, ws, oldWs>>
    /\ UNCHANGED <<otherVars, reportAuth>>

\* The interval the poll effect leaves registered for props c, t.
\* simple: always setInterval.  relay: if (!classId || !teacherId) return;
PollTimer(c, t) ==
    IF variant = "relay" /\ (c = 0 \/ t = 0) THEN "off" ELSE "armed"

\* Mutant: a cleanup that leaves the socket as it is.
CloseRelayForgets(w) == w

\* The relay effect's cleanup, on the socket state w of the ref:
\* if (streamWsRef.current) streamWsRef.current.close();
CloseRelay(w) == IF w = "open" THEN "closed" ELSE w

\* The socket the relay effect leaves in streamWsRef for classId c, starting
\* from socket state w: its cleanup closes the socket the ref holds, then
\* if (!classId) return; else a new WebSocket replaces it. (A run that
\* returned early registered no cleanup; the ref's socket is not open then.)
RelaySocket(w, c) ==
    IF variant = "simple" THEN "none"
    ELSE IF c # 0 THEN "open"
    ELSE CloseRelay(w)

\* The sockets streamWsRef no longer holds after the relay effect has run
\* for classId c: the socket it held, as the cleanup left it, joins them
\* when a new WebSocket replaces it.
ReplacedSockets(w, c) ==
    IF variant = "relay" /\ c # 0 /\ w # "none"
    THEN oldWs \cup {CloseRelay(w)}
    ELSE oldWs

\* Mutant: new props start a new cooldown (the timestamp goes back to 0).
SetPropsResetsCooldown(c, t) ==
    /\ mounted
    /\ <<c, t>> # <<classId, teacherId>>
    /\ classId' = c
    /\ teacherId' = t
    /\ timer' = PollTimer(c, t)
    /\ ws' = IF c # classId THEN RelaySocket(ws, c) ELSE ws
    /\ oldWs' = IF c # classId THEN ReplacedSockets(ws, c) ELSE oldWs
    /\ lastReportTime' = 0
    /\ last' = Ran("props", "none")
    /\ UNCHANGED <<variant, now, mounted, isProcessing, cyc, reportTimes, imgSrc>>
    /\ UNCHANGED <<otherVars, reportAuth>>

\* The parent re-renders the component with other props: the effects whose
\* dependencies changed are cleaned up and run again. The refs are kept.
SetProps(c, t) ==
    /\ mounted
    /\ <<c, t>> # <<classId, teacherId>>
    /\ classId' = c
    /\ teacherId' = t
    /\ timer' = PollTimer(c, t)
    /\ ws' = IF c # classId THEN RelaySocket(ws, c) ELSE ws
    /\ oldWs' = IF c # classId THEN ReplacedSockets(ws, c) ELSE oldWs
    /\ last' = Ran("props", "none")
    /\ UNCHANGED <<variant, now, mounted, isProcessing, lastReportTime, cyc,
                   reportTimes, imgSrc>>
    /\ UNCHANGED <<otherVars, reportAuth>>

\* The component unmounts: clearInterval(interval) and the relay effect's
\* cleanup. Suspended detectFrame calls are not cancelled.
Unmount ==
    /\ mounted
    /\ mounted' = FALSE
    /\ timer' = "off"
    /\ ws' = CloseRelay(ws)
    /\ last' = Ran("unmount", "none")
    /\ UNCHANGED oldWs
    /\ UNCHANGED <<variant, now, classId, teacherId, isProcessing,
                   lastReportTime, cyc, reportTimes, imgSrc>>
    /\ UNCHANGED <<otherVars, reportAuth>>

\* ------------------------------------------------------------- relay frames
Lower(c) ==
    CASE c = "H" -> "h" [] c = "T" -> "t" [] c = "P" -> "p" [] c = "S" -> "s"
      [] OTHER -> c

\* lit matches str at position i, ignoring case.
MatchAt(str, i, lit) ==
    /\ Len(str) >= i + Len(lit) - 1
    /\ \A k \in 1..Len(lit) : Lower(str[i + k - 1]) = lit[k]

\* Mutant: the pattern without its optional s, /^http:\/\//i.
IsHttpOnly(curSrc) ==
    /\ MatchAt(curSrc, 1, <<"h", "t", "t", "p">>)
    /\ MatchAt(curSrc, 5, <<":", "/", "/">>)

\* Mutant: any non-empty src taken for the stream.
AnySrcIsStream(curSrc) == curSrc # <<>>

\* /^https?:\/\//i.test(curSrc)
IsHttpStream(curSrc) ==
    /\ MatchAt(curSrc, 1, <<"h", "t", "t", "p">>)
    /\ \/ MatchAt(curSrc, 5, <<":", "/", "/">>)
       \/ MatchAt(curSrc, 5, <<"s", ":", "/", "/">>)

\* streamWsRef.current.onmessage
onmessage(msg) ==
    /\ variant = "relay"
    /\ ws = "open"
    /\ imgSrc' = IF msg.parseOk /\ msg.type = "frame" /\ msg.el
                    /\ ~IsHttpStream(imgSrc)
                 THEN msg.image ELSE imgSrc
    /\ last' = [Ran("frame", IF msg.parseOk THEN "none" ELSE "error")
                   EXCEPT !.msg = msg]
    /\ UNCHANGED <<variant, now, mounted, classId, teacherId, timer,
                   isProcessing, lastReportTime, cyc, reportTimes, ws,
                   oldWs>>
    /\ UNCHANGED <<otherVars, reportAuth>>

\* The parent writes the element's src: the camera's HTTP stream when it
\* renders the <img>, "" when it switches class or unmounts.
SetStream(url) ==
    /\ imgSrc # url
    /\ imgSrc' = url
    /\ last' = Ran("stream", "none")
    /\ UNCHANGED <<variant, now, mounted, classId, teacherId, timer,
                   isProcessing, lastReportTime, cyc, reportTimes, ws,
                   oldWs>>
    /\ UNCHANGED <<otherVars, reportAuth>>

\* Mutant: an onclose handler that opens a new socket.
oncloseReconnects ==
    /\ variant = "relay"
    /\ ws = "open"
    /\ ws' = "open"
    /\ oldWs' = oldWs \cup {"closed"}
    /\ last' = Ran("wsClose", "log")
    /\ UNCHANGED <<variant, now, mounted, classId, teacherId, timer,
                   isProcessing, lastReportTime, cyc, reportTimes, imgSrc>>
    /\ UNCHANGED <<otherVars, reportAuth>>

\* streamWsRef.current.onerror: the error is logged.
onerror ==
    /\ variant = "relay"
    /\ ws = "open"
    /\ last' = Ran("wsError", "error")
    /\ UNCHANGED <<engineVars, otherVars>>

\* The relay socket is closed from the other side (or fails):
\* streamWsRef.current.onclose logs it.
onclose ==
    /\ variant = "relay"
    /\ ws = "open"
    /\ ws' = "closed"
    /\ last' = Ran("wsClose", "log")
    /\ UNCHANGED <<variant, now, mounted, classId, teacherId, timer,
                   isProcessing, lastReportTime, cyc, reportTimes, imgSrc,
                   oldWs>>
    /\ UNCHANGED <<otherVars, reportAuth>>

\* ------------------------------------------------------------- alert socket
\* An alert pushed on the socket: whether JSON.parse succeeds, and which
\* alert it is.
AlertMsgs == [parseOk : {TRUE}, id : 1..MaxAlertIds] \cup {[parseOk |-> FALSE, id |-> 0]}

Live(st) == st \in {"connecting", "open"}

CloseAt(socks, i) == [socks EXCEPT ![i] = "closed"]

\* The alert effect's cleanup, as [socks, ref, timer] after it.
\* simple: () => socket?.close()
\* relay:  clearTimeout(connectTimer); the socket of socketRef is closed only
\*         if its readyState is OPEN; socketRef.current = null. A run that
\*         returned at its guard has no cleanup.
AlertCleanup ==
    IF variant = "simple"
    THEN [socks |-> IF socketRef # 0 THEN CloseAt(alertSocks, socketRef)
                    ELSE alertSocks,
          ref |-> 0, timer |-> "none"]
    ELSE IF ~hasCleanup
    THEN [socks |-> alertSocks, ref |-> socketRef, timer |-> connectTimer]
    ELSE [socks |-> IF socketRef # 0 /\ alertSocks[socketRef] = "open"
                    THEN CloseAt(alertSocks, socketRef) ELSE alertSocks,
          ref |-> 0, timer |-> "none"]

\* One run of the alert effect from the state c a cleanup left, with token
\* tok and sessionInfo sess, as [socks, ref, timer, cleanup] after it.
\* simple: if (sessionInfo) socket = new WebSocket(...)
\* relay:  if (!token || socketRef.current) return; else the connect timeout
\*         is set.
AlertEffect(c, tok, sess) ==
    IF variant = "simple"
    THEN IF sess
         THEN [socks |-> Append(c.socks, "connecting"), ref |-> Len(c.socks) + 1,
               timer |-> "none", cleanup |-> TRUE]
         ELSE [socks |-> c.socks, ref |-> 0, timer |-> "none", cleanup |-> TRUE]
    ELSE IF tok = 0 \/ c.ref # 0
    THEN [socks |-> c.socks, ref |-> c.ref, timer |-> c.timer, cleanup |-> FALSE]
    ELSE [socks |-> c.socks, ref |-> c.ref, timer |-> "set", cleanup |-> TRUE]

\* The dependencies of the alert effect changed between two renders.
\* simple: [sessionInfo, user]   relay: [token, user]
DepsChanged(tok, sess, userChanged) ==
    \/ userChanged
    \/ IF variant = "simple" THEN sess # sessionInfo ELSE tok # depToken

\* The page renders again with token tok and sessionInfo sess (userChanged:
\* the user object of useAuth() is another one): the alert effect is cleaned
\* up and run again when its dependencies changed.
PageRender(tok, sess, userChanged) ==
    /\ pageMounted
    /\ <<tok, sess>> # <<depToken, sessionInfo>> \/ userChanged
    /\ depToken' = tok
    /\ sessionInfo' = sess
    /\ IF DepsChanged(tok, sess, userChanged)
       THEN LET e == AlertEffect(AlertCleanup, tok, sess)
            IN /\ Len(e.socks) <= MaxSockets
               /\ alertSocks' = e.socks
               /\ socketRef' = e.ref
               /\ connectTimer' = e.timer
               /\ hasCleanup' = e.cleanup
               /\ last' = Ran("alertDeps", "none")
       ELSE /\ UNCHANGED <<alertSocks, socketRef, connectTimer, hasCleanup>>
            /\ last' = Ran("render", "none")
    /\ UNCHANGED <<pageMounted, notifications, latestAlert, hideTimers>>
    /\ UNCHANGED <<engineVars, overlayVars, apiVars, sessionVars>>

\* relay: the connect timeout fires: const socket = new WebSocket(wsUrl);
\* socketRef.current = socket.
Connect ==
    /\ connectTimer = "set"
    /\ Len(alertSocks) < MaxSockets
    /\ connectTimer' = "none"
    /\ alertSocks' = Append(alertSocks, "connecting")
    /\ socketRef' = Len(alertSocks) + 1
    /\ last' = Ran("connect", "log")
    /\ UNCHANGED <<pageMounted, depToken, sessionInfo, hasCleanup,
                   notifications, latestAlert, hideTimers>>
    /\ UNCHANGED <<engineVars, overlayVars, apiVars, sessionVars>>

\* Socket i connects. relay: socket.onopen logs and clears the error.
socket_onopen(i) ==
    /\ alertSocks[i] = "connecting"
    /\ alertSocks' = [alertSocks EXCEPT ![i] = "open"]
    /\ last' = [Ran("alertOpen", "none") EXCEPT !.sock = i]
    /\ UNCHANGED <<pageMounted, depToken, sessionInfo, socketRef, connectTimer,
                   hasCleanup, notifications, latestAlert, hideTimers>>
    /\ UNCHANGED <<engineVars, overlayVars, apiVars, sessionVars>>

\* Socket i reports an error: socket.onerror logs it (relay: and shows
\* "Live Alert Connection Failed.").
socket_onerror(i) ==
    /\ Live(alertSocks[i])
    /\ last' = [Ran("alertError", "error") EXCEPT !.sock = i]
    /\ UNCHANGED <<engineVars, alertVars, overlayVars, apiVars, sessionVars>>

\* Socket i is closed from the other side (or fails).
\* relay: socket.onclose: if (socketRef.current === socket)
\*        socketRef.current = null.  simple: no onclose handler.
socket_onclose(i) ==
    /\ Live(alertSocks[i])
    /\ alertSocks' = CloseAt(alertSocks, i)
    /\ socketRef' = IF variant = "relay" /\ socketRef = i THEN 0 ELSE socketRef
    /\ last' = [Ran("alertClose", IF variant = "relay" THEN "log" ELSE "none")
                   EXCEPT !.sock = i]
    /\ UNCHANGED <<pageMounted, depToken, sessionInfo, connectTimer, hasCleanup,
                   notifications, latestAlert, hideTimers>>
    /\ UNCHANGED <<engineVars, overlayVars, apiVars, sessionVars>>

\* Mutant: the newest alert goes to the end of the list.
Newest_last(data, prev) == prev \o <<data>>

\* setNotifications(prev => [data, ...prev])
Newest_first(data, prev) == <<data>> \o prev

\* socket.onmessage on socket i: a message that parses goes to the head of
\* notifications, becomes latestAlert, and a 5 s timeout is set to hide it.
\* (The sound and the browser notification of the relay version are wrapped
\* in try/catch and touch no state.) State updates of an unmounted page are
\* dropped.
socket_onmessage(i, m) ==
    /\ alertSocks[i] = "open"
    /\ Len(notifications) < MaxAlerts
    /\ Len(hideTimers) < MaxAlerts
    /\ IF m.parseOk
       THEN /\ notifications' = IF pageMounted
                                THEN Newest_first(m.id, notifications)
                                ELSE notifications
            /\ latestAlert' = IF pageMounted THEN m.id ELSE latestAlert
            /\ hideTimers' = Append(hideTimers, m.id)
            /\ last' = [Ran("alertMsg", "none") EXCEPT !.sock = i, !.alert = m.id]
       ELSE /\ UNCHANGED <<notifications, latestAlert, hideTimers>>
            /\ last' = [Ran("alertMsg", "error") EXCEPT !.sock = i]
    /\ UNCHANGED <<pageMounted, depToken, sessionInfo, alertSocks, socketRef,
                   connectTimer, hasCleanup>>
    /\ UNCHANGED <<engineVars, overlayVars, apiVars, sessionVars>>

\* A hide timeout fires: setLatestAlert(null). The timeouts all have the
\* same delay, so they fire in the order they were set.
HideAlert ==
    /\ hideTimers # <<>>
    /\ hideTimers' = Tail(hideTimers)
    /\ latestAlert' = 0
    /\ last' = Ran("hide", "none")
    /\ UNCHANGED <<pageMounted, depToken, sessionInfo, alertSocks, socketRef,
                   connectTimer, hasCleanup, notifications>>
    /\ UNCHANGED <<engineVars, overlayVars, apiVars, sessionVars>>

\* The page unmounts: the alert effect's cleanup runs.
PageUnmount ==
    /\ pageMounted
    /\ pageMounted' = FALSE
    /\ alertSocks' = AlertCleanup.socks
    /\ socketRef' = AlertCleanup.ref
    /\ connectTimer' = AlertCleanup.timer
    /\ last' = Ran("pageUnmount", "none")
    /\ UNCHANGED <<depToken, sessionInfo, hasCleanup, notifications,
                   latestAlert, hideTimers>>
    /\ UNCHANGED <<engineVars, overlayVars, apiVars, sessionVars>>

\* The page as it mounts: a token, no session yet, the alert effect run once.
MountedPage == AlertEffect([socks |-> <<>>, ref |-> 0, timer |-> "none"], 1, FALSE)

\* ------------------------------------------------------------------ overlay
RECURSIVE Gcd(_, _)
Gcd(a, b) == IF b = 0 THEN a ELSE Gcd(b, a % b)

Abs(n) == IF n < 0 THEN 0 - n ELSE n

\* The number n / d as JavaScript computes it, exactly: <<numerator,
\* denominator>> in lowest terms; <<1, 0>> is Infinity and <<0, 0>> is NaN
\* (n is not negative when d is 0).
Frac(n, d) ==
    IF d = 0 THEN (IF n = 0 THEN <<0, 0>> ELSE <<1, 0>>)
    ELSE LET g == Gcd(Abs(n), d) IN <<n \div g, d \div g>>

Finite(f) == f[2] # 0

\* f - k
Minus(f, k) == IF Finite(f) THEN Frac(f[1] - k * f[2], f[2]) ELSE f

\* Mutant: the coordinate as the detector gave it.
Unscaled(v, disp, src) == Frac(v, 1)

\* v * scale, with scale = disp / src
Scaled(v, disp, src) == Frac(v * disp, src)

Upper(c) ==
    CASE c = "c" -> "C" [] c = "e" -> "E" [] c = "l" -> "L" [] c = "p" -> "P"
      [] c = "h" -> "H" [] c = "o" -> "O" [] c = "n" -> "N" [] c = "r" -> "R"
      [] c = "s" -> "S" [] OTHER -> c

\* p.class.toUpperCase()
ToUpperCase(str) == [k \in 1..Len(str) |-> Upper(str[k])]

\* Mutant: one colour for every class.
AlwaysRed(p) == "#ff0000"

\* isPhone ? '#ff0000' : '#00ff00', isPhone = p.class === 'cell phone'
StrokeStyle(p) == IF p.class = CellPhone THEN "#ff0000" ELSE "#00ff00"

\* ctx.strokeRect(p.x * scaleX, p.y * scaleY, p.w * scaleX, p.h * scaleY)
RectOf(p, cw, ch, sw, sh) ==
    [x |-> Scaled(p.x, cw, sw), y |-> Scaled(p.y, ch, sh),
     w |-> Scaled(p.w, cw, sw), h |-> Scaled(p.h, ch, sh),
     color |-> StrokeStyle(p)]

\* ctx.fillText(p.class.toUpperCase(), p.x * scaleX, (p.y * scaleY) - 10),
\* with fillStyle = strokeStyle
LabelOf(p, cw, ch, sw, sh) ==
    [text |-> ToUpperCase(p.class), x |-> Scaled(p.x, cw, sw),
     y |-> Minus(Scaled(p.y, ch, sh), 10), color |-> StrokeStyle(p)]

\* strokeRect and fillText draw nothing when an argument is not finite, and
\* strokeRect draws nothing when both the width and the height are zero.
RectDrawn(r) ==
    /\ Finite(r.x) /\ Finite(r.y) /\ Finite(r.w) /\ Finite(r.h)
    /\ ~(r.w[1] = 0 /\ r.h[1] = 0)

LabelDrawn(l) == Finite(l.x) /\ Finite(l.y)

\* canvas.width = ...; canvas.height = ...; ctx.clearRect(0, 0, w, h)
Cleared(cv, cw, ch) == [w |-> cw, h |-> ch, rects |-> <<>>, labels |-> <<>>]

\* The canvas cleared to cw x ch, then predictions.forEach: one strokeRect and
\* one fillText for each prediction, for a frame of sw x sh.
Painted(cv, preds, cw, ch, sw, sh) ==
    LET c == Cleared(cv, cw, ch)
    IN [c EXCEPT
          !.rects = c.rects \o
              SelectSeq([i \in 1..Len(preds) |->
                            RectOf(preds[i], cw, ch, sw, sh)], RectDrawn),
          !.labels = c.labels \o
              SelectSeq([i \in 1..Len(preds) |->
                            LabelOf(preds[i], cw, ch, sw, sh)], LabelDrawn)]

\* The canvas after drawOverlay(preds, dims) with the element as m, from the
\* canvas cv.
\* simple: the canvas takes the element's client size and the scale is the
\*         client size over the natural size.
\* relay:  the frame size is dims, else the natural, else the client size; the
\*         canvas takes the client size, else the frame size; any of them
\*         being 0 the call returns before the canvas is touched.
OverlayAfter(cv, preds, dims, m) ==
    IF ~mounted \/ ~m.present THEN cv
    ELSE IF variant = "simple"
    THEN Painted(cv, preds, m.cliW, m.cliH, m.natW, m.natH)
    ELSE LET srcW == IF dims.srcW # 0 THEN dims.srcW ELSE SrcW(m)
             srcH == IF dims.srcH # 0 THEN dims.srcH ELSE SrcH(m)
             dispW == IF m.cliW # 0 THEN m.cliW ELSE srcW
             dispH == IF m.cliH # 0 THEN m.cliH ELSE srcH
         IN IF srcW = 0 \/ srcH = 0 \/ dispW = 0 \/ dispH = 0 THEN cv
            ELSE Painted(cv, preds, dispW, dispH, srcW, srcH)

\* One call of drawOverlay: by detectFrame with the predictions of a detect
\* response (relay version: and the size of the frame it captured), or by
\* the relay socket's onmessage with those of a relayed frame (no dims).
drawOverlay ==
    /\ canvas' = OverlayAfter(canvas, call.boxes, call.dims, call.media)
    /\ last' = Ran("draw", "none")
    /\ UNCHANGED <<engineVars, alertVars, call, apiVars, sessionVars>>

\* A new <canvas>: 300 x 150, nothing drawn.
BlankCanvas == [w |-> 300, h |-> 150, rects |-> <<>>, labels |-> <<>>]

\* The canvas an earlier call left: one 'cell phone' box, drawn for a loaded
\* image shown at twice its size.
EarlierCanvas ==
    Painted(BlankCanvas,
            <<[class |-> CellPhone, x |-> 10, y |-> 10, w |-> 50, h |-> 50]>>,
            1280, 960, 640, 480)

\* The calls of drawOverlay looked at: a prediction list, the dims argument
\* (relay version only) and the element the call finds.
Calls ==
    {c \in [boxes : BoxLists, dims : Dims, media : ShownMedia] :
        variant = "simple" => c.dims = NoDims}

NoCall == [boxes |-> <<>>, dims |-> NoDims, media |-> NoElement]

\* ------------------------------------------------------------- API helpers
\* A string built from pieces is the sequence of its pieces; the text of a
\* status code is one piece.
StatusText(n) ==
    CASE n = 200 -> "200"
      [] n = 401 -> "401"
      [] n = 403 -> "403"
      [] n = 500 -> "500"

\* `Request failed with status ${response.status}.`
RequestFailed(n) == <<"Request failed with status ", StatusText(n), ".">>

\* `Login failed with status: ${response.status}`
LoginFailed(n) == <<"Login failed with status: ", StatusText(n)>>

AuthRequired == <<"Authentication token required for protected endpoint.">>

\* The message of the TypeError of a fetch that rejects, and of the
\* SyntaxError of response.json() on a body that is not JSON.
FailedToFetch == <<"Failed to fetch">>
UnexpectedToken == <<"Unexpected token">>

\* The body of a response: whether it parses as JSON, and of the parsed
\* object its detail (NoDetail: the object has none) and its access_token
\* (0: none). A detail is a text that is not empty.
NoDetail == <<>>
Details == {NoDetail, <<"Not authenticated">>, <<"Could not validate credentials">>}

Responses ==
    {r \in [ok : BOOLEAN, status : {200, 401, 403, 500}, json : BOOLEAN,
            detail : Details, access_token : {0, 2}] :
        /\ r.ok <=> r.status = 200
        /\ ~r.json => r.detail = NoDetail /\ r.access_token = 0
        /\ r.ok => r.detail = NoDetail
        /\ ~r.ok => r.access_token = 0}

\* What fetch gives: a rejection (no response at all) or a response.
NoResponse == [ok |-> FALSE, status |-> 500, json |-> FALSE, detail |-> NoDetail,
               access_token |-> 0]

Fetches ==
    {[settled |-> "reject", response |-> NoResponse]} \cup
    {[settled |-> "response", response |-> r] : r \in Responses}

\* How a call ended: it returned the parsed body or threw an error (its
\* class and its message); whether it sent a request, and the bearer token
\* the request carried.
Returned(r, tok) ==
    [kind |-> "return", body |-> r, error |-> "none", message |-> <<>>,
     sent |-> TRUE, bearer |-> tok]

Threw(class, msg, wasSent, tok) ==
    [kind |-> "throw", body |-> NoResponse, error |-> class, message |-> msg,
     sent |-> wasSent, bearer |-> tok]

NoResult ==
    [kind |-> "none", body |-> NoResponse, error |-> "none", message |-> <<>>,
     sent |-> FALSE, bearer |-> 0]

\* Mutant: headers are built whatever the token is.
HeadersForAnyToken(token) == FALSE

\* getAuthHeaders: if (!token) throw new Error(...). TRUE when it throws.
getAuthHeaders(token) == token = 0

\* Mutant: the default message whatever the body says.
DefaultAlways(r) == RequestFailed(r.status)

\* The message fetchData throws on a response that is not ok:
\*   let detail = `Request failed with status ${response.status}.`;
\*   try { const errorData = await response.json();
\*         detail = errorData.detail || detail; } catch (e) {}
ErrorDetail(r) ==
    IF r.json /\ r.detail # NoDetail THEN r.detail ELSE RequestFailed(r.status)

\* fetchData(endpoint, token, options) of admin.js, given what fetch gives.
FetchDataResult(token, f) ==
    IF getAuthHeaders(token) THEN Threw("Error", AuthRequired, FALSE, 0)
    ELSE IF f.settled = "reject" THEN Threw("TypeError", FailedToFetch, TRUE, token)
    ELSE IF ~f.response.ok
    THEN Threw("Error", ErrorDetail(f.response), TRUE, token)
    ELSE IF f.response.json THEN Returned(f.response, token)
    ELSE Threw("SyntaxError", UnexpectedToken, TRUE, token)

\* login(formData, endpoint) of auth.js: the body of a response that is not
\* ok is parsed outside any try of its own, so a body that is not JSON ends
\* the call with the parser's SyntaxError; the catch logs and rethrows.
LoginResult(f) ==
    IF f.settled = "reject" THEN Threw("TypeError", FailedToFetch, TRUE, 0)
    ELSE IF ~f.response.json THEN Threw("SyntaxError", UnexpectedToken, TRUE, 0)
    ELSE IF ~f.response.ok
    THEN Threw("Error",
               IF f.response.detail # NoDetail THEN f.response.detail
               ELSE LoginFailed(f.response.status), TRUE, 0)
    ELSE Returned(f.response, 0)

\* The calls looked at: the helper, the token the caller passes (fetchData
\* only; 0 is null) and what fetch gives.
Requests ==
    {q \in [fn : {"fetchData", "login"}, token : {0, 1}, fetch : Fetches] :
        q.fn = "login" => q.token = 0}

NoRequest == [fn |-> "none", token |-> 0, fetch |-> [settled |-> "reject",
                                                    response |-> NoResponse]]

\* One call of fetchData, from its first line to its return or throw.
fetchData ==
    /\ req.fn = "fetchData"
    /\ res = NoResult
    /\ res' = FetchDataResult(req.token, req.fetch)
    /\ last' = Ran("fetchData", "none")
    /\ UNCHANGED <<engineVars, alertVars, overlayVars, req, sessionVars>>

\* One call of login of auth.js; it logs what it rethrows.
login ==
    /\ req.fn = "login"
    /\ res = NoResult
    /\ res' = LoginResult(req.fetch)
    /\ last' = Ran("login", IF res'.kind = "throw" THEN "error" ELSE "none")
    /\ UNCHANGED <<engineVars, alertVars, overlayVars, req, sessionVars>>

\* ------------------------------------------------------------------ routes
\* Mutant: a route guard that looks at the sign-in only, not at the role.
AnyRoleAllowed(a, allowedRole) == a.isAuthenticated

\* ProtectedRoute: TRUE when it returns its children, FALSE when it returns
\* <Navigate to="/" replace />. allowedRole is NoRole when none is given.
ProtectedRoute(a, allowedRole) ==
    IF ~a.isAuthenticated THEN FALSE
    ELSE IF allowedRole # NoRole /\ a.userRole # allowedRole THEN FALSE
    ELSE TRUE

Paths == {"/", "/dashboard", "/teacher/dashboard", "/else"}

\* The routes of App: the path the router is at once path has been rendered
\* with the state a of AuthProvider (a redirect replaces the path).
App(path, a) ==
    CASE path = "/" -> "/"
      [] path = "/dashboard" ->
            IF ProtectedRoute(a, "Admin") THEN path ELSE "/"
      [] path = "/teacher/dashboard" ->
            IF ProtectedRoute(a, "Teacher") THEN path ELSE "/"
      [] OTHER -> "/"

\* The user goes to path inside the running application (a link, the back
\* button): AuthProvider keeps its state.
navigate(path) ==
    /\ path # location
    /\ location' = App(path, auth)
    /\ last' = [Ran("navigate", "none") EXCEPT !.path = path]
    /\ UNCHANGED <<engineVars, alertVars, overlayVars, apiVars, storage, auth>>

\* ---------------------------------------------- signing in and signing out
\* What the sign-in and the admin calls of the session get from fetch: a
\* 200 with a JSON body (granted: with an access_token) or a 401 with a
\* detail.
SessionFetches(granted) ==
    {f \in Fetches :
        /\ f.settled = "response"
        /\ \/ /\ f.response.ok
              /\ f.response.json
              /\ f.response.access_token # 0 <=> granted
           \/ /\ f.response.status = 401
              /\ f.response.detail = <<"Not authenticated">>}

\* handleSubmit of LoginPage, from the settling of login(formData, endpoint):
\*   if (result.access_token) authLogin(result.access_token, role);
\*   else throw new Error("No token received from server");
\*   navigate(role === 'Admin' ? '/dashboard' : '/teacher/dashboard')
\* authLogin is AuthProvider's login: two setItem and three state setters,
\* and the page logs the success. An error is shown, not logged by the page
\* (login of auth.js logs what it rethrows).
handleSubmit(role, f) ==
    LET result == LoginResult(f)
        granted == result.kind = "return" /\ result.body.access_token # 0
    IN  /\ location = "/"
        /\ IF granted
           THEN /\ storage' = [storage EXCEPT
                                  !.access_token = result.body.access_token,
                                  !.user_role = role]
                /\ auth' = [token |-> result.body.access_token,
                            isAuthenticated |-> TRUE, userRole |-> role]
                /\ location' = App(IF role = "Admin" THEN "/dashboard"
                                   ELSE "/teacher/dashboard", auth')
           ELSE UNCHANGED <<storage, auth, location>>
        /\ last' = Ran("handleSubmit",
                       IF granted THEN "log"
                       ELSE IF result.kind = "throw" THEN "error" ELSE "none")
        /\ UNCHANGED <<engineVars, alertVars, overlayVars, apiVars>>

\* logout of AuthProvider (the teacher's page calls it); ProtectedRoute then
\* renders again.
logout ==
    /\ location = "/teacher/dashboard"
    /\ storage' = NoStorage
    /\ auth' = [token |-> 0, isAuthenticated |-> FALSE, userRole |-> NoRole]
    /\ location' = App(location, auth')
    /\ last' = Ran("logout", "none")
    /\ UNCHANGED <<engineVars, alertVars, overlayVars, apiVars>>

\* handleLogout of the admin's DashboardPage: localStorage.clear(), then
\*   simple: navigate('/', { replace: true })   AuthProvider is not told;
\*   relay:  window.location.href = "/"         the document is replaced:
\*           AuthProvider starts again from the (empty) storage, and the
\*           DetectionEngine of the grid goes with its timer, its pending
\*           calls and its socket.
handleLogout ==
    /\ location = "/dashboard"
    /\ storage' = NoStorage
    /\ location' = "/"
    /\ IF variant = "simple"
       THEN UNCHANGED <<auth, mounted, timer, cyc, isProcessing, ws>>
       ELSE /\ auth' = [token |-> 0, isAuthenticated |-> FALSE, userRole |-> NoRole]
            /\ mounted' = FALSE
            /\ timer' = "off"
            /\ cyc' = [s \in Slots |-> IdleCycle]
            /\ isProcessing' = FALSE
            /\ ws' = CloseRelay(ws)
    /\ last' = Ran("handleLogout", "none")
    /\ UNCHANGED <<now, classId, teacherId, lastReportTime, reportTimes,
                   reportAuth, imgSrc, oldWs, variant>>
    /\ UNCHANGED <<alertVars, overlayVars, apiVars>>

\* Mutant: the admin grid signs the user out of storage on a 401.
fetchClassesDropsToken(f) ==
    /\ location = "/dashboard"
    /\ StoredToken(storage) # 0
    /\ req' = [fn |-> "fetchData", token |-> StoredToken(storage), fetch |-> f]
    /\ res' = FetchDataResult(StoredToken(storage), f)
    /\ last' = Ran("fetchClasses", IF res'.kind = "throw" THEN "error" ELSE "none")
    /\ storage' = IF f.settled = "response" /\ f.response.status = 401
                  THEN NoStorage ELSE storage
    /\ UNCHANGED <<engineVars, alertVars, overlayVars, auth, location>>

\* fetchClasses of the admin grid: the effect runs once tokenReady is set,
\* which checkAuth does when it finds a token in storage; the token is read
\* from storage and given to getAllClassesData, which is
\* fetchData('admin/classes/all', token); an error is logged.
fetchClasses(f) ==
    /\ location = "/dashboard"
    /\ StoredToken(storage) # 0
    /\ req' = [fn |-> "fetchData", token |-> StoredToken(storage), fetch |-> f]
    /\ res' = FetchDataResult(StoredToken(storage), f)
    /\ last' = Ran("fetchClasses", IF res'.kind = "throw" THEN "error" ELSE "none")
    /\ UNCHANGED <<engineVars, alertVars, overlayVars, sessionVars>>

\* fetchLogs of AuditLogsPage (/dashboard/logs), run when the page mounts:
\* the token is read from storage, whether one is there or not, and given to
\* getAuditLogs, which is fetchData('admin/audit_logs', token); an error is
\* shown and logged.
fetchLogs(f) ==
    /\ location = "/dashboard"
    /\ req' = [fn |-> "fetchData", token |-> StoredToken(storage), fetch |-> f]
    /\ res' = FetchDataResult(StoredToken(storage), f)
    /\ last' = Ran("fetchLogs", IF res'.kind = "throw" THEN "error" ELSE "none")
    /\ UNCHANGED <<engineVars, alertVars, overlayVars, sessionVars>>

\* handleSubmit of UserManagementPage with a valid form: the token is the one
\* of useAuth(); if (!token) the error is shown and nothing is sent, else
\* createTeacher(payload, token), which is fetchData('admin/create_teacher', ...).
createTeacher(f) ==
    /\ location = "/dashboard"
    /\ req' = [fn |-> "fetchData", token |-> auth.token, fetch |-> f]
    /\ res' = IF auth.token = 0 THEN NoResult ELSE FetchDataResult(auth.token, f)
    /\ last' = Ran("createTeacher", "none")
    /\ UNCHANGED <<engineVars, alertVars, overlayVars, sessionVars>>

\* ----------------------------------------------------------- specifications
InitComponents ==
    /\ variant \in {"simple", "relay"}
    /\ now = Epoch
    /\ mounted = TRUE
    /\ classId \in {0, 1}
    /\ teacherId \in {0, 1}
    /\ timer = PollTimer(classId, teacherId)
    /\ isProcessing = FALSE
    /\ lastReportTime = 0
    /\ cyc = [s \in Slots |-> IdleCycle]
    /\ reportTimes = <<>>
    /\ reportAuth = <<>>
    /\ imgSrc = HttpCam
    /\ ws = RelaySocket("none", classId)
    /\ oldWs = {}
    /\ last = Ran("init", "none")
    /\ pageMounted = TRUE
    /\ depToken = 1
    /\ sessionInfo = FALSE
    /\ alertSocks = MountedPage.socks
    /\ socketRef = MountedPage.ref
    /\ connectTimer = MountedPage.timer
    /\ hasCleanup = MountedPage.cleanup
    /\ notifications = <<>>
    /\ latestAlert = 0
    /\ hideTimers = <<>>

\* A user is signed in: AuthProvider.login stored the token and the role.
SignedIn == [token |-> 0, access_token |-> 1, user_role |-> "Admin"]

InitSession ==
    /\ storage = SignedIn
    /\ auth = [token |-> 1, isAuthenticated |-> TRUE, userRole |-> "Admin"]
    /\ location = "/dashboard"

Init ==
    /\ InitComponents
    /\ canvas = BlankCanvas
    /\ call = NoCall
    /\ req = NoRequest
    /\ res = NoResult
    /\ InitSession

\* The poller: ticks, detect and report round trips, time, props, unmount.
Next ==
    \/ \E m \in Media, drawOk \in BOOLEAN : detectFrame(m, drawOk)
    \/ \E s \in Slots, out \in {"reject", "ok", "notok"} : DetectFetched(s, out)
    \/ \E s \in Slots, parseOk \in BOOLEAN, d \in DetectData :
          DetectParsed(s, parseOk, d)
    \/ \E s \in Slots, out \in {"reject", "ok", "notok", "notokBadJson"} :
          reportViolation(s, out)
    \/ \E t \in ClockValues : Advance(t)
    \/ \E c \in {0, 1}, t \in {0, 1} : SetProps(c, t)
    \/ Unmount

Spec == Init /\ [][Next]_vars

\* The frame relay: socket messages and the parent's writes of the src.
NextRelay ==
    \/ \E msg \in RelayMsgs : onmessage(msg)
    \/ \E url \in {<<>>, HttpCam} : SetStream(url)
    \/ \E c \in {0, 1}, t \in {0, 1} : SetProps(c, t)
    \/ Unmount
    \/ onerror
    \/ onclose

SpecRelay == Init /\ [][NextRelay]_vars

\* The alert socket of the teacher's page.
NextAlert ==
    \/ \E tok \in {0, 1}, sess \in BOOLEAN, userChanged \in BOOLEAN :
          PageRender(tok, sess, userChanged)
    \/ Connect
    \/ \E i \in DOMAIN alertSocks : socket_onopen(i)
    \/ \E i \in DOMAIN alertSocks : socket_onerror(i)
    \/ \E i \in DOMAIN alertSocks : socket_onclose(i)
    \/ \E i \in DOMAIN alertSocks, m \in AlertMsgs : socket_onmessage(i, m)
    \/ HideAlert
    \/ PageUnmount

\* The engine's props play no part here: one value of each is enough.
InitPage == Init /\ classId = 1 /\ teacherId = 1

SpecAlert == InitPage /\ [][NextAlert]_vars

\* The overlay: drawOverlay as a function of its arguments, of the element
\* and of the canvas it finds, which is a new one or the one an earlier call
\* left. (The poller's and the relay's specifications do not follow the
\* canvas.)
InitOverlay ==
    /\ InitComponents
    /\ classId = 1
    /\ teacherId = 1
    /\ canvas \in {BlankCanvas, EarlierCanvas}
    /\ call \in Calls
    /\ req = NoRequest
    /\ res = NoResult
    /\ InitSession

NextOverlay == drawOverlay

SpecOverlay == InitOverlay /\ [][NextOverlay]_vars

\* The API helpers: one call of fetchData or of login, for every token and
\* every outcome of its fetch.
InitApi ==
    /\ InitComponents
    /\ classId = 1
    /\ teacherId = 1
    /\ canvas = BlankCanvas
    /\ call = NoCall
    /\ req \in Requests
    /\ res = NoResult
    /\ InitSession

NextApi == fetchData \/ login

SpecApi == InitApi /\ [][NextApi]_vars

\* A detect body with one cell phone above both thresholds.
PhoneSeen ==
    [hasPreds |-> TRUE, preds |-> <<[class |-> "cell phone", conf |-> 36]>>,
     evidence |-> FALSE]

\* The session: signing in and out, next to the operations that use the
\* stored token or run while it changes: the poll cycle with its report, the
\* relay socket's messages, the admin calls. A token may be stored under
\* 'token' (no code of the application writes that key; the code reads it).
InitStored ==
    /\ InitComponents
    /\ classId = 1
    /\ teacherId = 1
    /\ canvas = BlankCanvas
    /\ call = NoCall
    /\ req = NoRequest
    /\ res = NoResult
    /\ storage \in {[SignedIn EXCEPT !.token = t] : t \in {0, 3}}
    /\ auth = [token |-> 1, isAuthenticated |-> TRUE, userRole |-> "Admin"]
    /\ location = "/dashboard"

NextSession ==
    \/ \E role \in {"Admin", "Teacher"}, f \in SessionFetches(TRUE) :
          handleSubmit(role, f)
    \/ logout
    \/ handleLogout
    \/ \E f \in SessionFetches(FALSE) : fetchClasses(f)
    \/ \E f \in SessionFetches(FALSE) : fetchLogs(f)
    \/ \E f \in SessionFetches(FALSE) : createTeacher(f)
    \/ \E path \in {"/", "/dashboard"} : navigate(path)
    \/ \E m \in {m \in Media : m.natW # 0 /\ m.natH # 0 /\ m.cliW # 0 /\ m.cliH # 0} :
          detectFrame(m, TRUE)
    \/ \E s \in Slots : DetectFetched(s, "ok")
    \/ \E s \in Slots : DetectParsed(s, TRUE, PhoneSeen)
    \/ \E s \in Slots : reportViolation(s, "ok")
    \/ \E t \in {Epoch + Period, Epoch + Period + LongGap} : Advance(t)
    \/ \E msg \in {m \in RelayMsgs : m.el /\ m.image = DataA} : onmessage(msg)

SpecSession == InitStored /\ [][NextSession]_vars

\* The poller of one instance while the admin switches between two classes
\* (AdminMonitorGrid gives the same DetectionEngine the selected class's id).
InitClasses == Init /\ classId = 1 /\ teacherId = 1

NextClasses ==
    \/ \E m \in {m \in Media : m.natW # 0 /\ m.natH # 0 /\ m.cliW # 0 /\ m.cliH # 0} :
          detectFrame(m, TRUE)
    \/ \E s \in Slots, out \in {"reject", "ok"} : DetectFetched(s, out)
    \/ \E s \in Slots, d \in {d \in DetectData : d.hasPreds} :
          DetectParsed(s, TRUE, d)
    \/ \E s \in Slots, out \in {"ok", "notok"} : reportViolation(s, out)
    \/ \E t \in ClockValues : Advance(t)
    \/ \E c \in {1, 2} : SetProps(c, 1)
    \/ Unmount

SpecClasses == InitClasses /\ [][NextClasses]_vars

\* AuthProvider as it mounts on storage st: useState(null), useState(false),
\* useState(localStorage.getItem('user_role') || null), then the effect that
\* takes the token and the role when 'access_token' and 'user_role' are set.
Restored(st) ==
    IF st.access_token # 0 /\ st.user_role # NoRole
    THEN [token |-> st.access_token, isAuthenticated |-> TRUE,
          userRole |-> st.user_role]
    ELSE [token |-> 0, isAuthenticated |-> FALSE, userRole |-> st.user_role]

\* The router and the session: the application opens at the login route,
\* with nobody, an admin or a teacher in storage; then sign-ins, sign-outs,
\* navigation and the admin's calls.
InitRoutes ==
    /\ InitComponents
    /\ classId = 1
    /\ teacherId = 1
    /\ canvas = BlankCanvas
    /\ call = NoCall
    /\ req = NoRequest
    /\ res = NoResult
    /\ storage \in {NoStorage, SignedIn, [SignedIn EXCEPT !.user_role = "Teacher"]}
    /\ auth = Restored(storage)
    /\ location = "/"

NextRoutes ==
    \/ \E role \in {"Admin", "Teacher"}, f \in SessionFetches(TRUE) :
          handleSubmit(role, f)
    \/ logout
    \/ handleLogout
    \/ \E path \in Paths : navigate(path)
    \/ \E f \in SessionFetches(FALSE) : fetchClasses(f)
    \/ \E f \in SessionFetches(FALSE) : fetchLogs(f)
    \/ \E f \in SessionFetches(FALSE) : createTeacher(f)

SpecRoutes == InitRoutes /\ [][NextRoutes]_vars

\* The two sockets of the teacher's page: the alert socket of the page and the
\* relay socket of its DetectionEngine.
NextSockets ==
    \/ NextAlert
    \/ \E msg \in {m \in RelayMsgs : m.el /\ m.image \in {<<>>, DataA}} :
          onmessage(msg)
    \/ \E c \in {0, 1} : SetProps(c, teacherId)
    \/ Unmount
    \/ onerror
    \/ onclose

SpecSockets == InitPage /\ [][NextSockets]_vars

\* ------------------------------------------------------ notions of the claims
\* A detect body holds a qualifying detection: a prediction of class
\* 'cell phone' whose confidence is above the version's threshold.
Qualifying(d) ==
    \E i \in 1..Len(d.preds) :
        /\ d.preds[i].class = "cell phone"
        /\ d.preds[i].conf > (IF variant = "simple" THEN 35 ELSE 18)

\* The first n characters of str, in lower case.
LowerPrefix(str, n) == [k \in 1..n |-> Lower(str[k])]

\* str is an http:// or https:// URL (schemes are case-insensitive).
HoldsHttpUrl(str) ==
    \/ Len(str) >= 7 /\ LowerPrefix(str, 7) = <<"h", "t", "t", "p", ":", "/", "/">>
    \/ Len(str) >= 8 /\ LowerPrefix(str, 8) = <<"h", "t", "t", "p", "s", ":", "/", "/">>

\* The element the tick read has a usable size for the version running.
UsableMedia(m) ==
    /\ m.present
    /\ IF variant = "simple" THEN m.natW # 0
       ELSE (m.natW # 0 \/ m.cliW # 0) /\ (m.natH # 0 \/ m.cliH # 0)

\* A suspended detectFrame call ends in this step.
CycleEnds == \E s \in Slots : cyc[s].pc # "idle" /\ cyc'[s].pc = "idle"

\* The relay message handled in this step is a parseable frame and the
\* element exists.
FrameHandled ==
    /\ last'.op = "frame"
    /\ last'.msg.parseOk
    /\ last'.msg.type = "frame"
    /\ last'.msg.el

\* The native size of the frame the predictions of call c refer to (the frame
\* detectFrame captured, else the image in the element) and the size the
\* element is displayed at.
NativeW(c) == IF c.dims.srcW # 0 THEN c.dims.srcW ELSE c.media.natW

NativeH(c) == IF c.dims.srcH # 0 THEN c.dims.srcH ELSE c.media.natH

DisplayedW(c) == c.media.cliW

DisplayedH(c) == c.media.cliH

\* The element is there and all four sizes are known (not 0).
Sized(c) ==
    /\ c.media.present
    /\ NativeW(c) # 0 /\ NativeH(c) # 0
    /\ DisplayedW(c) # 0 /\ DisplayedH(c) # 0

\* The number f equals v * num / den.
IsScaled(f, v, num, den) == f[2] # 0 /\ f[1] * den = v * num * f[2]

\* The class name in capitals.
Capitals(class) ==
    IF class = <<"p", "e", "r", "s", "o", "n">>
    THEN <<"P", "E", "R", "S", "O", "N">>
    ELSE <<"C", "E", "L", "L", " ", "P", "H", "O", "N", "E">>

\* ------------------------------------------------------------------- claims
\* C1: at most one poll cycle is in flight per instance; a timer firing while
\* a cycle is in flight captures nothing and sends nothing, and it is not
\* queued: no step other than a timer firing starts a cycle.
C1_OneCycleInFlight ==
    /\ [](Cardinality(InFlight) <= 1)
    /\ [][(last'.op = "tick" /\ InFlight # {}) => cyc' = cyc]_vars
    /\ [][last'.op # "tick" => InFlight' \subseteq InFlight]_vars

\* C1 witness: a timer firing with a usable element and both ids was dropped
\* while the cycle in flight was waiting for its report POST.
C1_Witness ==
    /\ last.op = "tick"
    /\ UsableMedia(last.media)
    /\ classId # 0 /\ teacherId # 0
    /\ \E s \in Slots : cyc[s].pc = "report"

\* C2: a cycle that set the in-flight flag clears it when it ends, whatever
\* the outcome; the flag is never left set with no cycle in flight.
C2_FlagCleared ==
    /\ [](isProcessing => InFlight # {})
    /\ [][CycleEnds => ~isProcessing']_vars

\* C2 witness: a cycle has just ended on a failed violation report and the
\* flag is clear.
C2_Witness ==
    /\ last.op = "reported"
    /\ last.log = "error"
    /\ InFlight = {}
    /\ ~isProcessing

\* C3: any two report-violation POSTs of the instance are more than 12000 ms
\* apart.
C3_ReportsApart ==
    \A i, j \in DOMAIN reportTimes :
        i < j => reportTimes[j] - reportTimes[i] > 12000

\* C3 witness: a second qualifying detection was handled 5 seconds after the
\* only report so far and no second report was sent.
C3_Witness ==
    /\ last.op = "parsed"
    /\ Qualifying(last.data)
    /\ Len(reportTimes) = 1
    /\ now - reportTimes[1] = ShortGap

\* C4 as claimed: a qualifying detection handled more than 12 seconds after
\* the last accepted report produces a report-violation POST.
C4_Claimed ==
    [][(/\ last'.op = "parsed"
        /\ Qualifying(last'.data)
        /\ now - lastReportTime > 12000)
       => reportTimes' = Append(reportTimes, now)]_vars

\* C4 as amended: ... produces a report-violation POST, unless the relay
\* version's detect response carries an evidence_url.
C4_ReportAfterCooldown ==
    [][(/\ last'.op = "parsed"
        /\ Qualifying(last'.data)
        /\ now - lastReportTime > 12000
        /\ ~(variant = "relay" /\ last'.data.evidence))
       => reportTimes' = Append(reportTimes, now)]_vars

\* C4 witness: two reports 13 seconds apart.
C4_Witness ==
    /\ Len(reportTimes) = 2
    /\ reportTimes[2] - reportTimes[1] = LongGap
    /\ last.op = "parsed"
    /\ Qualifying(last.data)

\* C5 as claimed: a timer firing that finds the element with zero width or
\* zero height (here: every width, or every height, it exposes is zero)
\* captures nothing, sends nothing and does not set the in-flight flag.
C5_Claimed ==
    [][(/\ last'.op = "tick"
        /\ last'.media.present
        /\ \/ last'.media.natW = 0 /\ last'.media.cliW = 0
           \/ last'.media.natH = 0 /\ last'.media.cliH = 0)
       => (cyc' = cyc /\ isProcessing' = isProcessing)]_vars

\* C6 as claimed: while classId or teacherId is absent a timer firing captures
\* nothing and sends nothing, and it is skipped silently (nothing is logged).
C6_Claimed ==
    [][(last'.op = "tick" /\ (classId = 0 \/ teacherId = 0))
       => (cyc' = cyc /\ isProcessing' = isProcessing /\ last'.log = "none")]_vars

\* C6 as amended: ... captures nothing, sends nothing, does not set the flag
\* and logs no error: the relay version has no timer registered, the simple
\* version logs at most a console warning.
C6_SkipWithoutIds ==
    /\ []((variant = "relay" /\ (classId = 0 \/ teacherId = 0)) => timer = "off")
    /\ [][(last'.op = "tick" /\ (classId = 0 \/ teacherId = 0))
          => (/\ cyc' = cyc
              /\ isProcessing' = isProcessing
              /\ variant = "simple"
              /\ last'.log \in {"none", "warn"})]_vars

\* C6 witness: the simple version skipped a timer firing for want of an id,
\* with a console warning.
C6_Witness ==
    /\ last.op = "tick"
    /\ teacherId = 0
    /\ classId # 0
    /\ last.log = "warn"
    /\ InFlight = {}

\* C7: a relay message handled while the element's src is an http(s) URL
\* leaves the src unchanged.
C7_StreamKept ==
    [][(last'.op = "frame" /\ HoldsHttpUrl(imgSrc)) => imgSrc' = imgSrc]_vars

\* C7 witness: a parseable frame was handled, the element exists, and the src
\* still is the camera's HTTP stream.
C7_Witness ==
    /\ last.op = "frame"
    /\ last.msg.parseOk /\ last.msg.type = "frame" /\ last.msg.el
    /\ imgSrc = HttpCam

\* C8: a relay frame handled while the src is not an http(s) URL overwrites
\* the src with the relayed image.
C8_FrameShown ==
    [][(FrameHandled /\ ~HoldsHttpUrl(imgSrc)) => imgSrc' = last'.msg.image]_vars

\* C8 witness: the src, the camera's HTTP stream at the mount, was reverted
\* to empty and the relay frame handled last has replaced it.
C8_Witness ==
    /\ last.op = "frame"
    /\ imgSrc = DataB
    /\ last.msg.image = DataB

\* C9: a cycle that ends on an error leaves the interval as it was; while the
\* component is mounted (and, relay version, both ids are present) the
\* interval stays registered; and a timer firing with no cycle in flight, a
\* usable element, both ids and a capture that does not throw starts a cycle.
C9_PollerKeepsGoing ==
    /\ []((mounted /\ (variant = "simple" \/ (classId # 0 /\ teacherId # 0)))
          => timer # "off")
    /\ [][(CycleEnds /\ last'.log = "error") => timer' = timer]_vars
    /\ [][(/\ last'.op = "tick"
           /\ InFlight = {}
           /\ UsableMedia(last'.media)
           /\ classId # 0 /\ teacherId # 0
           /\ last'.log # "error")
          => InFlight' # {}]_vars

\* C9 witness: a cycle has just ended on a network or parse error, and the
\* interval is due to fire with the flag clear.
C9_Witness ==
    /\ last.op \in {"fetched", "parsed"}
    /\ last.log = "error"
    /\ InFlight = {}
    /\ ~isProcessing
    /\ mounted
    /\ timer = "due"

\* C10: relay version, detect response with an evidence_url: no POST in that
\* cycle; cooldown elapsed: the timestamp is updated and alert() called;
\* cooldown not elapsed: neither.
C10_EvidenceAck ==
    [][(last'.op = "parsed" /\ variant = "relay" /\ last'.data.evidence)
       => (/\ reportTimes' = reportTimes
           /\ \A s \in Slots : cyc'[s].pc # "report"
           /\ IF now - lastReportTime > 12000
              THEN lastReportTime' = now /\ last'.alerted
              ELSE lastReportTime' = lastReportTime /\ ~last'.alerted)]_vars

\* C10 witness: a response with a qualifying detection and an evidence_url
\* was acknowledged locally and no report was ever sent.
C10_Witness ==
    /\ last.op = "parsed"
    /\ last.data.evidence
    /\ Qualifying(last.data)
    /\ last.alerted
    /\ lastReportTime = now
    /\ reportTimes = <<>>

\* C11: a report POST that fails (network error or a response that is not ok)
\* is only logged: the step sends no POST and leaves none pending, the
\* cooldown timestamp set when the report was sent is kept, and the cycle ends
\* with the flag clear; a POST is only ever sent by the handling of a detect
\* response with a qualifying detection.
C11_ReportNotRetried ==
    /\ [][(last'.op = "reported" /\ last'.log = "error")
          => (/\ reportTimes' = reportTimes
              /\ lastReportTime' = reportTimes[Len(reportTimes)]
              /\ CycleEnds
              /\ InFlight' = {}
              /\ ~isProcessing')]_vars
    /\ [][reportTimes' # reportTimes
          => (last'.op = "parsed" /\ Qualifying(last'.data))]_vars

\* C11 witness: the only report sent has failed 5 seconds after it was sent;
\* the cooldown timestamp still is the instant it was sent at, and no call is
\* in flight.
C11_Witness ==
    /\ last.op = "reported"
    /\ last.log = "error"
    /\ Len(reportTimes) = 1
    /\ lastReportTime = reportTimes[1]
    /\ now = reportTimes[1] + ShortGap
    /\ InFlight = {}

\* C12 as claimed: a detect response (or the answer to a report) that arrives
\* after the component has unmounted is discarded: the cooldown timestamp is
\* not updated, no acknowledgment is shown and no report-violation POST is
\* sent. (The overlay is not part of this model; after the unmount
\* canvasRef.current is null and drawOverlay returns at once.)
C12_Claimed ==
    [][(~mounted /\ last'.op \in {"parsed", "reported"})
       => (/\ lastReportTime' = lastReportTime
           /\ reportTimes' = reportTimes
           /\ ~last'.alerted
           /\ \A s \in Slots : cyc'[s].pc # "report")]_vars

\* C13: once the component has unmounted its interval is cleared, no timer
\* firing runs and no new cycle starts, and no relay socket the instance
\* opened is still open: neither the one the ref holds nor, at any time, one
\* that a classId change has replaced.
C13_TeardownStops ==
    /\ [](~mounted => (timer = "off" /\ ws # "open"))
    /\ []("open" \notin oldWs)
    /\ [][~mounted => (last'.op # "tick" /\ InFlight' \subseteq InFlight)]_vars

\* C13 witness: the relay version has unmounted after classId changes that
\* replaced one socket by another; both are closed, and time has passed since
\* with the interval off.
C13_Witness ==
    /\ variant = "relay"
    /\ ~mounted
    /\ ws = "closed"
    /\ oldWs = {"closed"}
    /\ last.op = "advance"
    /\ timer = "off"

\* C14: neither socket reconnects by itself. A relay socket is only ever
\* created when the relay effect runs for changed props, an alert socket only
\* when the alert effect runs for changed dependencies or by the connect
\* timeout, which only such a run sets; so a step in which a socket errors
\* or closes creates none and schedules none. A socket delivers a message only
\* while it is open.
C14_NoReconnect ==
    /\ [][((ws' = "open" /\ ws # "open") \/ oldWs' # oldWs)
          => last'.op = "props"]_vars
    /\ [][Len(alertSocks') > Len(alertSocks)
          => last'.op \in {"alertDeps", "connect"}]_vars
    /\ [][(connectTimer' = "set" /\ connectTimer # "set")
          => last'.op = "alertDeps"]_vars
    /\ [][last'.op \in {"wsError", "wsClose", "alertError", "alertClose"}
          => (/\ ws' # "open" \/ ws = "open"
              /\ oldWs' = oldWs
              /\ Len(alertSocks') = Len(alertSocks)
              /\ connectTimer' = connectTimer)]_vars
    /\ [][last'.op = "frame" => ws = "open"]_vars
    /\ [][last'.op = "alertMsg" => alertSocks[last'.sock] = "open"]_vars

\* C14 witness: both sockets were closed from the other side after the alert
\* socket had delivered an alert; the components are still mounted, no socket
\* is live and no connection is scheduled.
C14_Witness ==
    /\ mounted /\ pageMounted
    /\ classId # 0
    /\ ws = "closed"
    /\ oldWs = {}
    /\ alertSocks = <<"closed">>
    /\ connectTimer = "none"
    /\ Len(notifications) = 1
    /\ last.op \in {"wsClose", "alertClose"}

\* C15: a drawOverlay call that finds the element with known native and
\* displayed sizes leaves exactly one rectangle and one label per prediction,
\* in the order of the list; x and width are scaled by displayed width over
\* native width, y and height by displayed height over native height, and the
\* label is the class name in capitals.
C15_OneBoxPerPrediction ==
    (last.op = "draw" /\ mounted /\ Sized(call))
    => /\ Len(canvas.rects) = Len(call.boxes)
       /\ Len(canvas.labels) = Len(call.boxes)
       /\ \A i \in 1..Len(call.boxes) :
             LET p == call.boxes[i]
                 r == canvas.rects[i]
             IN /\ IsScaled(r.x, p.x, DisplayedW(call), NativeW(call))
                /\ IsScaled(r.w, p.w, DisplayedW(call), NativeW(call))
                /\ IsScaled(r.y, p.y, DisplayedH(call), NativeH(call))
                /\ IsScaled(r.h, p.h, DisplayedH(call), NativeH(call))
                /\ canvas.labels[i].text = Capitals(p.class)

\* C15 witness: {x: 10, y: 10, w: 50, h: 50, class: 'cell phone'}, native size
\* 640x480, displayed 1280x960: one rectangle at (20, 20) of 100 x 100 and
\* the label "CELL PHONE".
C15_Witness ==
    /\ last.op = "draw"
    /\ call.boxes = <<[class |-> <<"c", "e", "l", "l", " ", "p", "h", "o", "n", "e">>,
                       x |-> 10, y |-> 10, w |-> 50, h |-> 50]>>
    /\ call.dims = NoDims
    /\ call.media = [present |-> TRUE, natW |-> 640, natH |-> 480,
                     cliW |-> 1280, cliH |-> 960]
    /\ Len(canvas.rects) = 1
    /\ canvas.rects[1].x = <<20, 1>> /\ canvas.rects[1].y = <<20, 1>>
    /\ canvas.rects[1].w = <<100, 1>> /\ canvas.rects[1].h = <<100, 1>>
    /\ Len(canvas.labels) = 1
    /\ canvas.labels[1].text = <<"C", "E", "L", "L", " ", "P", "H", "O", "N", "E">>

\* C16 as claimed: after any drawOverlay call no box of an earlier call
\* remains: what is on the overlay belongs to the list passed to the call (at
\* most one rectangle and one label for each prediction, none when the list
\* is empty).
C16_Claimed ==
    (last.op = "draw")
    => /\ Len(canvas.rects) <= Len(call.boxes)
       /\ Len(canvas.labels) <= Len(call.boxes)
       /\ \A i \in 1..Len(canvas.labels) :
             \E j \in 1..Len(call.boxes) :
                 canvas.labels[i].text = Capitals(call.boxes[j].class)

\* C17: in what a drawOverlay call draws, the rectangle and the label of a
\* prediction are red (#ff0000) when its class is exactly 'cell phone' and
\* green (#00ff00) for every other class, 'Cell Phone' included, whatever
\* its coordinates.
C17_PhoneRedOthersGreen ==
    (last.op = "draw" /\ mounted /\ Sized(call))
    => /\ Len(canvas.rects) = Len(call.boxes)
       /\ Len(canvas.labels) = Len(call.boxes)
       /\ \A i \in 1..Len(call.boxes) :
             LET colour == IF call.boxes[i].class =
                                <<"c", "e", "l", "l", " ", "p", "h", "o", "n", "e">>
                           THEN "#ff0000" ELSE "#00ff00"
             IN /\ canvas.rects[i].color = colour
                /\ canvas.labels[i].color = colour

\* C17 witness: a 'cell phone' and a 'person' prediction with the same box
\* were drawn at the same place, the first in red and the second in green.
C17_Witness ==
    /\ last.op = "draw"
    /\ Len(call.boxes) = 2
    /\ call.boxes[1].class = <<"c", "e", "l", "l", " ", "p", "h", "o", "n", "e">>
    /\ call.boxes[2].class = <<"p", "e", "r", "s", "o", "n">>
    /\ Len(canvas.rects) = 2
    /\ canvas.rects[1].color = "#ff0000"
    /\ canvas.rects[2].color = "#00ff00"
    /\ [canvas.rects[1] EXCEPT !.color = ""] = [canvas.rects[2] EXCEPT !.color = ""]

\* C18: a call of fetchData that got a response that is not ok has thrown an
\* Error whose message is the detail of the body when the body is JSON with
\* a detail, and "Request failed with status N." otherwise; and a call of
\* fetchData that returned got an ok response and returned its parsed body.
C18_DetailSurfaces ==
    (req.fn = "fetchData" /\ res # NoResult) =>
        LET r == req.fetch.response IN
        /\ (req.token # 0 /\ req.fetch.settled = "response" /\ ~r.ok) =>
              /\ res.kind = "throw"
              /\ res.error = "Error"
              /\ res.message =
                    IF r.json /\ r.detail # NoDetail THEN r.detail
                    ELSE <<"Request failed with status ", StatusText(r.status), ".">>
        /\ res.kind = "return" =>
              /\ req.fetch.settled = "response"
              /\ r.ok
              /\ r.json
              /\ res.body = r

\* A 401 whose body is {"detail": "Not authenticated"} has been thrown on as
\* an Error with that message.
C18_Witness ==
    /\ req.fn = "fetchData"
    /\ req.fetch.settled = "response"
    /\ req.fetch.response.status = 401
    /\ req.fetch.response.detail = <<"Not authenticated">>
    /\ res.kind = "throw"
    /\ res.message = <<"Not authenticated">>

C20_OnlyLoginAndLogoutWrite ==
    [][storage' # storage =>
          \/ /\ last'.op = "handleSubmit"
             /\ storage'.access_token # 0
             /\ storage'.token = storage.token
          \/ /\ last'.op \in {"logout", "handleLogout"}
             /\ storage' = [token |-> 0, access_token |-> 0, user_role |-> "null"]]_vars

\* A report was sent and an admin call made after a sign-in stored a new
\* token, and the token is still the stored one.
C20_Witness ==
    /\ Len(reportAuth) > 0
    /\ reportTimes[Len(reportTimes)] > Epoch + Period
    /\ last.op = "fetchClasses"
    /\ res.kind = "throw"
    /\ storage.access_token = 2

\* C21: on a mounted page, a message of the alert socket that parses makes
\* the notification list that message followed by the list as it was (added
\* once, at the head, nothing removed or reordered); a message that does not
\* parse, and every other step, leaves the list as it is.
C21_NewestFirstOnce ==
    [][IF last'.op = "alertMsg" /\ last'.alert # 0 /\ pageMounted
       THEN /\ Len(notifications') = Len(notifications) + 1
            /\ Head(notifications') = last'.alert
            /\ Tail(notifications') = notifications
       ELSE notifications' = notifications]_vars

\* Alert 2 has just arrived after alert 1: the list is 2, 1.
C21_Witness ==
    /\ pageMounted
    /\ last.op = "alertMsg"
    /\ last.alert = 2
    /\ notifications = <<2, 1>>

\* C22 as claimed: a detect response that is not ok leaves its cycle at the
\* parsing of the body, and by the end of that parsing step the cycle has
\* logged an error.
C22_Claimed ==
    [][\A s \in Slots :
          /\ (cyc[s].pc = "fetch" /\ cyc'[s].pc # "fetch" /\ last'.log # "error")
                => cyc'[s].pc = "json"
          /\ (cyc[s].pc = "json" /\ ~cyc[s].ok /\ cyc'[s].pc # "json")
                => last'.log = "error"]_vars

\* C23: a step that issues a report-violation POST is the handling of a
\* detect body that holds a 'cell phone' prediction with a confidence above
\* the version's threshold (0.35 simple, 0.18 relay), more than 12000 ms
\* after the cooldown timestamp; and when the POST is out, the timestamp is
\* already the time of that POST.
C23_ReportOnlyWhenQualified ==
    [][Len(reportTimes') > Len(reportTimes) =>
          /\ last'.op = "parsed"
          /\ \E i \in 1..Len(last'.data.preds) :
                /\ last'.data.preds[i].class = "cell phone"
                /\ last'.data.preds[i].conf >
                      (IF variant = "simple" THEN 35 ELSE 18)
          /\ now - lastReportTime > 12000
          /\ lastReportTime' = now
          /\ reportTimes'[Len(reportTimes')] = now
          /\ \E s \in Slots : cyc[s].pc = "json" /\ cyc'[s].pc = "report"]_vars

\* The relay version has just sent a report for a cell phone at 0.35 (not
\* enough for the simple version): the POST is out and the timestamp is set.
C23_Witness ==
    /\ variant = "relay"
    /\ last.op = "parsed"
    /\ Len(last.data.preds) = 1
    /\ last.data.preds[1].conf = 35
    /\ Len(reportTimes) = 1
    /\ reportTimes[1] = now
    /\ lastReportTime = now
    /\ \E s \in Slots : cyc[s].pc = "report"

\* C24: the cooldown timestamp changes only in a step that handles a detect
\* body more than 12000 ms after the timestamp, and then to the present
\* time (forward); a change of the class keeps it, and a detect body
\* handled within 12000 ms of it sends no report, whichever class is
\* selected by then.
C24_CooldownKept ==
    [][/\ lastReportTime' # lastReportTime =>
             /\ last'.op = "parsed"
             /\ now - lastReportTime > 12000
             /\ lastReportTime' = now
             /\ lastReportTime' > lastReportTime
       /\ classId' # classId => lastReportTime' = lastReportTime
       /\ (last'.op = "parsed" /\ now - lastReportTime <= 12000) =>
             reportTimes' = reportTimes]_vars

\* With class 2 selected (the instance started with class 1), a cell phone
\* seen 5 seconds after the only report so far has just been handled without
\* a second report.
C24_Witness ==
    /\ classId = 2
    /\ Len(reportTimes) = 1
    /\ lastReportTime = reportTimes[1]
    /\ now = reportTimes[1] + ShortGap
    /\ last.op = "parsed"
    /\ \E i \in 1..Len(last.data.preds) :
          last.data.preds[i].class = "cell phone" /\ last.data.preds[i].conf = 36

\* C25: while a report-violation POST is outstanding the in-flight flag is
\* set and nothing else of the instance is outstanding, and no step taken
\* meanwhile sends a detect request.
C25_FlagHeldDuringReport ==
    /\ [](\A s \in Slots : cyc[s].pc = "report" =>
              /\ isProcessing
              /\ \A r \in Slots \ {s} : cyc[r].pc = "idle")
    /\ [][(\E s \in Slots : cyc[s].pc = "report") =>
              \A r \in Slots : cyc'[r].pc = "fetch" => cyc[r].pc = "fetch"]_vars

\* The clock has moved on since a report was sent, the report is still out,
\* and the timer firing that came has sent nothing.
C25_Witness ==
    /\ last.op = "tick"
    /\ isProcessing
    /\ Len(reportTimes) > 0
    /\ now > reportTimes[Len(reportTimes)]
    /\ \E s \in Slots :
          cyc[s].pc = "report" /\ \A r \in Slots \ {s} : cyc[r].pc = "idle"

\* C26 as claimed: of the alert sockets a page instance created, at most one
\* is connecting or open.
C26_Claimed ==
    Cardinality({i \in DOMAIN alertSocks : Live(alertSocks[i])}) <= 1

\* C27 as claimed: a hide timeout that fires while an alert is shown is the
\* timeout set at the arrival of that alert (so the alert has been shown for
\* its 5 seconds), never the timeout of an earlier alert.
C27_Claimed ==
    [][(last'.op = "hide" /\ pageMounted /\ latestAlert # 0) =>
          Head(hideTimers) = latestAlert]_vars

\* C28: the router is at the admin dashboard only while AuthProvider says
\* authenticated with role 'Admin', and at the teacher dashboard only while
\* it says authenticated with role 'Teacher'; going to a protected path in
\* any other state ends at the login route.
C28_RoleGuardsRoute ==
    /\ [](location = "/dashboard" =>
              auth.isAuthenticated /\ auth.userRole = "Admin")
    /\ [](location = "/teacher/dashboard" =>
              auth.isAuthenticated /\ auth.userRole = "Teacher")
    /\ [][(last'.op = "navigate" /\ last'.path \in {"/dashboard", "/teacher/dashboard"}) =>
              location' = IF /\ auth.isAuthenticated
                             /\ auth.userRole = (IF last'.path = "/dashboard"
                                                 THEN "Admin" ELSE "Teacher")
                          THEN last'.path ELSE "/"]_vars

\* A signed-in teacher went to the admin dashboard and is at the login route.
C28_Witness ==
    /\ last.op = "navigate"
    /\ last.path = "/dashboard"
    /\ auth.isAuthenticated
    /\ auth.userRole = "Teacher"
    /\ location = "/"

\* C29: AuthProvider reports isAuthenticated only while an access token is in
\* client storage, and once a sign-out (AuthProvider's logout or the admin
\* dashboard's handleLogout) has cleared storage, isAuthenticated is false
\* and the held token is null.
C29_Claimed ==
    /\ auth.isAuthenticated => storage.access_token # 0
    /\ last.op \in {"logout", "handleLogout"} =>
          ~auth.isAuthenticated /\ auth.token = 0

\* C30 as stated: a call of the admin API with an absent token throws
\* 'Authentication token required for protected endpoint.' before any request
\* is issued, and no admin endpoint is requested without an Authorization
\* bearer header: not a call of fetchData, and not the detect POST of a poll
\* cycle that is waiting for its response.
C30_Claimed ==
    /\ (req.fn = "fetchData" /\ req.token = 0 /\ res.kind # "none") =>
          res.kind = "throw" /\ res.message = AuthRequired /\ ~res.sent
    /\ (req.fn = "fetchData" /\ res.sent) => res.bearer # 0
    /\ \A s \in Slots : cyc[s].pc = "fetch" => DetectHeaders.Authorization # 0

\* C30, amended: a call through fetchData with an absent token throws
\* 'Authentication token required for protected endpoint.' as an Error and
\* sends nothing (fetchLogs always makes the call; UserManagementPage makes
\* none without a token); every request fetchData sends carries the
\* caller's token, which is not null, as its bearer. The detect POST of the
\* DetectionEngine goes to /api/admin/detect with no Authorization header.
C30_NoUnauthenticatedFetchData ==
    /\ (req.fn = "fetchData" /\ req.token = 0) =>
          /\ ~res.sent
          /\ \/ res.kind = "none"
             \/ res.kind = "throw" /\ res.error = "Error" /\ res.message = AuthRequired
    /\ (last.op = "fetchLogs" /\ req.token = 0) => res.kind = "throw"
    /\ (req.fn = "fetchData" /\ res.sent) => res.bearer = req.token /\ res.bearer # 0
    /\ \A s \in Slots : cyc[s].pc = "fetch" => DetectHeaders.Authorization = 0

\* The audit log page asked for the logs with no token in storage: the call
\* threw the authentication error and nothing was sent.
C30_Witness ==
    /\ last.op = "fetchLogs"
    /\ req.token = 0
    /\ res.kind = "throw"
    /\ res.message = AuthRequired
    /\ ~res.sent

====
